---- MODULE Spec2Model ----
(***************************************************************************)
(* RaphaelLineTypeBase (src/js/plugins/raphaelLineTypeBase.js): the base   *)
(* renderer of line type charts.  The model keeps the instance state       *)
(* (groupDots, pivotGroupDots, outDotStyle, tooltipLine), the primitives   *)
(* of the drawing surface as attribute bags, the hover bindings and the    *)
(* pending timers, and has one action per public operation.                *)
(*                                                                         *)
(* Conventions.  A JavaScript object is a function from its keys to its    *)
(* values; an attribute the module never set is absent from the bag.       *)
(* Opacities are written as their decimal literal ("0", "0.3", "1");       *)
(* radii and widths are numbers.  JavaScript indices are 0-based and       *)
(* sequences 1-based: At(s, i) reads s[i].  An optional value is <<>>      *)
(* (undefined) or <<v>>.                                                   *)
(***************************************************************************)
EXTENDS Integers, Sequences, FiniteSets, TLC

VARIABLES
    pass,            \* number of render passes made so far
    groupPositions,  \* positions of the current pass
    colors,          \* colours of the groups of the current pass
    groupDots,       \* this.groupDots: marker ids, [group][point]
    paper,           \* circles of the current pass in creation order
    pivotGroupDots,  \* this.pivotGroupDots: <<>> or <<pivot>>
    borderStyle,     \* this.borderStyle: <<>> or <<style>>
    dotOpacity,      \* the opacity the out style was made with
    outDotStyle,     \* this.outDotStyle
    tooltipLine,     \* this.tooltipLine: attribute bag of the line
    hovers,          \* hover bindings: marker ordinal -> bound closures
    lines,           \* line primitives: id -> [path, tweens]
    timers,          \* pending setTimeout callbacks
    lastCall         \* the last operation and its outcome

vars == <<pass, groupPositions, colors, groupDots, paper, pivotGroupDots, borderStyle,
          dotOpacity, outDotStyle, tooltipLine, hovers, lines, timers, lastCall>>

dotVars == <<groupPositions, colors, groupDots, paper, pivotGroupDots, borderStyle,
             dotOpacity, outDotStyle, tooltipLine, hovers>>

----------------------------------------------------------------------------
\* Bounds of the model.

MaxGroups == 2
MaxPoints == 2
MaxPasses == 2
MaxTimers == 2

\* Program constants.

DEFAULT_DOT_WIDTH == 3
HOVER_DOT_WIDTH == 4

----------------------------------------------------------------------------
\* Values.

Undefined == <<>>
Some(v) == <<v>>
IsDefined(o) == o # Undefined
Value(o) == o[1]

At(s, i) == s[i + 1]
HasIndex(s, i) == i >= 0 /\ i < Len(s)

NoAttrs == [k \in {} |-> 0]

\* tui.util.extend(target, source): source's fields are copied onto target.
extend(target, source) ==
    [k \in DOMAIN target \cup DOMAIN source |->
        IF k \in DOMAIN source THEN source[k] ELSE target[k]]

\* element.attr(attrs): sets the given attributes of a primitive.
attr(element, attrs) == extend(element, attrs)

----------------------------------------------------------------------------
\* Inputs.

Opacities == {"0", "0.5", "1"}
DotOpacities == {"1"}
BorderColors == {"", "#ccc"}        \* "" is the falsy (absent) colour
ColorNames == <<"red", "blue", "green", "gray">>
Heights == {100}

Position(left, top) == [left |-> left, top |-> top]

\* The dataset of a shape (the number of points of each group): point i of
\* group g sits at its own position.
MakePositions(shape) ==
    [g \in 1..Len(shape) |->
        [i \in 1..shape[g] |-> Position(10 * i, 10 * g + i)]]

\* The shapes: up to MaxGroups groups of up to MaxPoints points each.
Shapes == UNION {[1..n -> 0..MaxPoints] : n \in 0..MaxGroups}

GroupPositionsSet == {MakePositions(s) : s \in Shapes}

PaletteAt(s) == [g \in 1..MaxGroups |-> ColorNames[((g + s) % Len(ColorNames)) + 1]]
Palettes == {PaletteAt(0)}
AllPalettes == {PaletteAt(0), PaletteAt(1)}

Durations == {700}
Delays == {0}
LineCounts == {1, 2}

\* Style objects: an attribute bag over any of these fields.
StyleFieldValues ==
    [r |-> {5}, stroke |-> {"#ccc", "#000"}]
    @@ ("stroke-opacity" :> {"0.5", "1"})
    @@ ("fill-opacity" :> {"0.3"})
    @@ ("stroke-width" :> {1})
RECURSIVE BagsOver(_)
BagsOver(fields) ==
    IF fields = {} THEN {NoAttrs}
    ELSE LET k == CHOOSE f \in fields : TRUE
         IN  {(k :> v) @@ bag : v \in StyleFieldValues[k], bag \in BagsOver(fields \ {k})}
StyleBags == UNION {BagsOver(fields) : fields \in SUBSET DOMAIN StyleFieldValues}

Bounds ==
    {[dimension |-> [width |-> 50, height |-> 100],
      position |-> [left |-> l, top |-> 5]] : l \in {20}}

PointIndexes == 0..MaxPoints
GroupIndexes == 0..MaxGroups
Payloads == [groupIndex : PointIndexes, index : GroupIndexes]

----------------------------------------------------------------------------
\* raphaelRenderUtil.makeLinePath: the path from one position to another.
renderUtilMakeLinePath(fromPos, toPos) == [from |-> fromPos, to |-> toPos]

\* raphaelRenderUtil.renderLine: a line primitive of a colour and width.
renderUtilRenderLine(linePath, color, strokeWidth) ==
    [path |-> linePath, stroke |-> color] @@ ("stroke-width" :> strokeWidth)

makeLinePath(fromPos, toPos) ==
    [start |-> renderUtilMakeLinePath(fromPos, fromPos),
     end |-> renderUtilMakeLinePath(fromPos, toPos)]

renderTooltipLine(height) ==
    LET linePath == renderUtilMakeLinePath(Position(10, height), Position(10, 0))
    IN  renderUtilRenderLine(linePath, "transparent", 1)

makeBorderStyle(borderColor, opacity) ==
    IF borderColor # ""
    THEN Some([stroke |-> borderColor]
              @@ ("stroke-width" :> 1)
              @@ ("stroke-opacity" :> opacity))
    ELSE Undefined

\* makeOutDotStyle in which the base fields win over the style's.
makeOutDotStyleBaseWins(opacity, style) ==
    LET base == ("fill-opacity" :> opacity)
                @@ ("stroke-opacity" :> "0")
                @@ [r |-> DEFAULT_DOT_WIDTH]
    IN  IF IsDefined(style) THEN extend(Value(style), base) ELSE base

makeOutDotStyle(opacity, style) ==
    LET base == ("fill-opacity" :> opacity)
                @@ ("stroke-opacity" :> "0")
                @@ [r |-> DEFAULT_DOT_WIDTH]
    IN  IF IsDefined(style) THEN extend(base, Value(style)) ELSE base

\* renderDot with the two coordinates of the circle exchanged.
renderDotTopLeft(position, color) ==
    LET dot == [cx |-> position.top, cy |-> position.left, r |-> DEFAULT_DOT_WIDTH]
        dotStyle == [fill |-> color]
                    @@ ("fill-opacity" :> "0")
                    @@ ("stroke-opacity" :> "0")
    IN  attr(dot, dotStyle)

\* paper.circle(left, top, r) followed by dot.attr(dotStyle).
renderDot(position, color) ==
    LET dot == [cx |-> position.left, cy |-> position.top, r |-> DEFAULT_DOT_WIDTH]
        dotStyle == [fill |-> color]
                    @@ ("fill-opacity" :> "0")
                    @@ ("stroke-opacity" :> "0")
    IN  attr(dot, dotStyle)

\* The id of the k-th circle created in a pass.
Marker(p, k) == [pass |-> p, n |-> k]

\* The outer map of renderDots from group g on; made holds the rows and the
\* circles created so far, in creation order.
RECURSIVE renderGroups(_, _, _, _, _)
renderGroups(p, positions, groupColors, g, made) ==
    IF g > Len(positions) THEN made
    ELSE LET color == groupColors[g]
             first == Len(made.paper)
             row == [i \in 1..Len(positions[g]) |-> Marker(p, first + i)]
             circles == [i \in 1..Len(positions[g]) |->
                            renderDot(positions[g][i], color)]
         IN  renderGroups(p, positions, groupColors, g + 1,
                          [dots |-> Append(made.dots, row),
                           paper |-> made.paper \o circles])

renderDots(p, positions, groupColors) ==
    renderGroups(p, positions, groupColors, 1, [dots |-> <<>>, paper |-> <<>>])

\* bindHoverEvent passing the group index before the point index.
bindHoverEventGroupFirst(position, groupIndex, index) ==
    [enter |-> <<position, groupIndex, index>>, exit |-> <<>>]

\* The closure _bindHoverEvent binds: what the enter handler passes on.
bindHoverEvent(position, groupIndex, index) ==
    [enter |-> <<position, index, groupIndex>>, exit |-> <<>>]

\* attachEvent: the two nested forEach call dot.hover on every marker, with
\* the closure made from the position at the marker's own indices.  bound
\* maps a circle's ordinal to the closures bound on it.
RECURSIVE attachDots(_, _, _, _, _)
attachDots(bound, dots, positions, groupIndex, index) ==
    IF ~HasIndex(dots, index) THEN bound
    ELSE LET position == At(At(positions, groupIndex), index)
             dot == At(dots, index)
         IN  attachDots(
                 [bound EXCEPT ![dot.n] =
                     Append(@, bindHoverEvent(position, groupIndex, index))],
                 dots, positions, groupIndex, index + 1)

RECURSIVE attachGroups(_, _, _, _)
attachGroups(bound, dots, positions, groupIndex) ==
    IF ~HasIndex(dots, groupIndex) THEN bound
    ELSE attachGroups(
             attachDots(bound, At(dots, groupIndex), positions, groupIndex, 0),
             dots, positions, groupIndex + 1)

attachEvent(bound, dots, positions) == attachGroups(bound, dots, positions, 0)

\* this._showDot's attributes.
ShowStyle ==
    ("fill-opacity" :> "1")
    @@ ("stroke-opacity" :> "0.3")
    @@ ("stroke-width" :> 2)
    @@ [r |-> HOVER_DOT_WIDTH]

\* dot.attr(attrs) on the circles of the surface: a circle of a superseded
\* pass is no longer on it.
dotAttr(circles, p, dot, attrs) ==
    IF dot.pass = p /\ dot.n \in DOMAIN circles
    THEN [circles EXCEPT ![dot.n] = attr(@, attrs)]
    ELSE circles

showDot(circles, p, dot) == dotAttr(circles, p, dot, ShowStyle)

\* hideDot that leaves the radius as it is.
hideDotKeepingRadius(circles, p, dot, style) ==
    dotAttr(circles, p, dot, [k \in DOMAIN style \ {"r"} |-> style[k]])

hideDot(circles, p, dot, style) == dotAttr(circles, p, dot, style)

\* showDots that stops after the first marker.
showDotsFirstOnly(circles, p, dots) ==
    IF dots = <<>> THEN circles
    ELSE showDot(circles, p, Head(dots))

\* tui.util.forEachArray(dots, this._showDot): each marker of dots is shown,
\* in order.
RECURSIVE showDots(_, _, _)
showDots(circles, p, dots) ==
    IF dots = <<>> THEN circles
    ELSE showDots(showDot(circles, p, Head(dots)), p, Tail(dots))

\* tui.util.forEachArray(dots, this._hideDot): each marker of dots is hidden,
\* in order.
RECURSIVE hideDots(_, _, _, _)
hideDots(circles, p, dots, style) ==
    IF dots = <<>> THEN circles
    ELSE hideDots(hideDot(circles, p, Head(dots), style), p, Tail(dots), style)

\* tui.util.pivot: the transpose of a two-dimensional array; column i holds
\* the i-th element of every row that has one, in row order.
RECURSIVE pivotColumn(_, _, _)
pivotColumn(arr2d, i, g) ==
    IF g > Len(arr2d) THEN <<>>
    ELSE (IF i <= Len(arr2d[g]) THEN <<arr2d[g][i]>> ELSE <<>>)
         \o pivotColumn(arr2d, i, g + 1)

RECURSIVE maxLen(_, _)
maxLen(arr2d, g) ==
    IF g > Len(arr2d) THEN 0
    ELSE LET rest == maxLen(arr2d, g + 1)
         IN  IF Len(arr2d[g]) > rest THEN Len(arr2d[g]) ELSE rest

pivot(arr2d) == [i \in 1..maxLen(arr2d, 1) |-> pivotColumn(arr2d, i, 1)]

\* getPivotGroupDots that takes groupDots itself for the view it caches.
getPivotGroupDotsUnpivoted(cached, dots) ==
    IF ~IsDefined(cached) THEN dots ELSE Value(cached)

\* _getPivotGroupDots: the cached pivot, computed when there is none.
getPivotGroupDots(cached, dots) ==
    IF ~IsDefined(cached) THEN pivot(dots) ELSE Value(cached)

\* _showTooltipLine's attributes for a bound.
tooltipShowAttrs(bound) ==
    LET linePath == renderUtilMakeLinePath(
                        Position(bound.position.left, bound.dimension.height),
                        Position(bound.position.left, bound.position.top))
    IN  [path |-> linePath, stroke |-> "#999"] @@ ("stroke-opacity" :> "1")

\* _hideTooltipLine's attributes.
tooltipHideAttrs == ("stroke-opacity" :> "0")

----------------------------------------------------------------------------
\* The record of a call: the operation, whether it raised, and the callbacks
\* it invoked.

Call(op, threw, callbacks) ==
    [op |-> op, threw |-> threw, callbacks |-> callbacks]

Init ==
    /\ pass = 0
    /\ groupPositions = <<>>
    /\ colors = <<>>
    /\ groupDots = <<>>
    /\ paper = <<>>
    /\ pivotGroupDots = Undefined
    /\ borderStyle = Undefined
    /\ dotOpacity = "0"
    /\ outDotStyle = NoAttrs
    /\ tooltipLine = NoAttrs
    /\ hovers = <<>>
    /\ lines = <<>>
    /\ timers = <<>>
    /\ lastCall = Call("new", FALSE, <<>>)

\* A render pass of the chart: the markers, the out style and the tooltip
\* line are made anew, the hover events are attached and the pivot view of
\* the previous pass is dropped.
Render(positions, groupColors, borderColor, opacity, height) ==
    /\ pass < MaxPasses
    /\ LET made == renderDots(pass + 1, positions, groupColors)
           border == makeBorderStyle(borderColor, opacity)
       IN  /\ pass' = pass + 1
           /\ groupPositions' = positions
           /\ colors' = groupColors
           /\ groupDots' = made.dots
           /\ paper' = made.paper
           /\ pivotGroupDots' = Undefined
           /\ borderStyle' = border
           /\ dotOpacity' = opacity
           /\ outDotStyle' = makeOutDotStyle(opacity, border)
           /\ tooltipLine' = renderTooltipLine(height)
           /\ hovers' = attachEvent([n \in DOMAIN made.paper |-> <<>>], made.dots, positions)
    /\ lastCall' = Call("render", FALSE, <<>>)
    /\ UNCHANGED <<lines, timers>>

\* this.groupDots[groupIndex][index]: reading the row of a group the array
\* does not have raises a TypeError; a point the row does not have is undefined.
dotAt(dots, groupIndex, index) ==
    IF ~HasIndex(dots, groupIndex) THEN [raises |-> TRUE, dot |-> Undefined]
    ELSE IF ~HasIndex(At(dots, groupIndex), index)
         THEN [raises |-> FALSE, dot |-> Undefined]
         ELSE [raises |-> FALSE, dot |-> Some(At(At(dots, groupIndex), index))]

\* showLookup with the payload's fields read under their own names.
showLookupByName(dots, data) ==
    LET index == data.index
        groupIndex == data.groupIndex
    IN  dotAt(dots, groupIndex, index)

\* The marker showAnimation addresses: the payload's fields are pivoted.
showLookup(dots, data) ==
    LET index == data.groupIndex
        groupIndex == data.index
    IN  dotAt(dots, groupIndex, index)

\* The marker hideAnimation addresses.
hideLookup(dots, data) ==
    LET index == data.groupIndex
        groupIndex == data.index
    IN  dotAt(dots, groupIndex, index)

\* showAnimation(data): _showDot calls attr on the dot, which raises a
\* TypeError when the dot is undefined.
showAnimation(data) ==
    /\ pass > 0
    /\ LET found == showLookup(groupDots, data)
           raises == found.raises \/ ~IsDefined(found.dot)
       IN  /\ paper' = IF raises THEN paper
                       ELSE showDot(paper, pass, Value(found.dot))
           /\ lastCall' = Call("showAnimation", raises, <<>>)
    /\ UNCHANGED <<pass, groupPositions, colors, groupDots, pivotGroupDots, borderStyle,
                   dotOpacity, outDotStyle, tooltipLine, hovers, lines, timers>>

\* hideAnimation(data): an undefined dot is skipped.
hideAnimation(data) ==
    /\ pass > 0
    /\ LET found == hideLookup(groupDots, data)
       IN  /\ paper' = IF ~found.raises /\ IsDefined(found.dot)
                       THEN hideDot(paper, pass, Value(found.dot), outDotStyle)
                       ELSE paper
           /\ lastCall' = Call("hideAnimation", found.raises, <<>>)
    /\ UNCHANGED <<pass, groupPositions, colors, groupDots, pivotGroupDots, borderStyle,
                   dotOpacity, outDotStyle, tooltipLine, hovers, lines, timers>>

\* showGroupAnimation(index, bound), for a column the pivot view has.
showGroupAnimation(index, bound) ==
    /\ pass > 0
    /\ LET dots == getPivotGroupDots(pivotGroupDots, groupDots)
       IN  /\ HasIndex(dots, index)
           /\ pivotGroupDots' = Some(dots)
           /\ paper' = showDots(paper, pass, At(dots, index))
           /\ tooltipLine' = attr(tooltipLine, tooltipShowAttrs(bound))
    /\ lastCall' = Call("showGroupAnimation", FALSE, <<>>)
    /\ UNCHANGED <<pass, groupPositions, colors, groupDots, borderStyle, dotOpacity,
                   outDotStyle, hovers, lines, timers>>

\* hideGroupAnimation(index), for a column the pivot view has.
hideGroupAnimation(index) ==
    /\ pass > 0
    /\ LET dots == getPivotGroupDots(pivotGroupDots, groupDots)
       IN  /\ HasIndex(dots, index)
           /\ pivotGroupDots' = Some(dots)
           /\ paper' = hideDots(paper, pass, At(dots, index), outDotStyle)
           /\ tooltipLine' = attr(tooltipLine, tooltipHideAttrs)
    /\ lastCall' = Call("hideGroupAnimation", FALSE, <<>>)
    /\ UNCHANGED <<pass, groupPositions, colors, groupDots, borderStyle, dotOpacity,
                   outDotStyle, hovers, lines, timers>>

\* The style arguments of makeOutDotStyle: undefined, a border style or any
\* other style object.
StyleInputs ==
    {Undefined}
    \cup {makeBorderStyle(c, o) : c \in BorderColors, o \in Opacities}
    \cup {Some(bag) : bag \in StyleBags}

\* The enter handlers bound on the n-th circle run: each calls inCallback.
RECURSIVE runHandlers(_, _)
runHandlers(bound, which) ==
    IF bound = <<>> THEN <<>>
    ELSE <<[fn |-> IF which = "enter" THEN "inCallback" ELSE "outCallback",
            args |-> IF which = "enter" THEN Head(bound).enter ELSE Head(bound).exit]>>
         \o runHandlers(Tail(bound), which)

hoverEnter(n) ==
    /\ n \in DOMAIN hovers
    /\ lastCall' = Call("hoverEnter", FALSE, runHandlers(hovers[n], "enter"))
    /\ UNCHANGED <<pass, dotVars, lines, timers>>

hoverExit(n) ==
    /\ n \in DOMAIN hovers
    /\ lastCall' = Call("hoverExit", FALSE, runHandlers(hovers[n], "exit"))
    /\ UNCHANGED <<pass, dotVars, lines, timers>>

\* makeBorderStyle and makeOutDotStyle called on their own: the instance
\* keeps the border style and the opacity the out style is made from.
makeBorderStyleCall(borderColor, opacity) ==
    /\ pass = 0
    /\ borderStyle' = makeBorderStyle(borderColor, opacity)
    /\ lastCall' = Call("makeBorderStyle", FALSE, <<>>)
    /\ UNCHANGED <<pass, groupPositions, colors, groupDots, paper, pivotGroupDots, dotOpacity,
                   outDotStyle, tooltipLine, hovers, lines, timers>>

makeOutDotStyleCall(opacity, style) ==
    /\ pass = 0
    /\ borderStyle' = style
    /\ dotOpacity' = opacity
    /\ outDotStyle' = makeOutDotStyle(opacity, style)
    /\ lastCall' = Call("makeOutDotStyle", FALSE, <<>>)
    /\ UNCHANGED <<pass, groupPositions, colors, groupDots, paper, pivotGroupDots,
                   tooltipLine, hovers, lines, timers>>

\* A render pass creates one line primitive per group, drawn at its start
\* path; the lines of the passes before stay referenced by pending timers.
LinePathOf(g, whole) ==
    LET path == makeLinePath(Position(0, 10 * g), Position(10, 10 * g + 1))
    IN  IF whole THEN path.end ELSE path.start

renderLines(count) ==
    /\ pass < MaxPasses
    /\ pass' = pass + 1
    /\ lines' = [id \in DOMAIN lines \cup {Marker(pass + 1, g) : g \in 1..count} |->
                    IF id \in DOMAIN lines THEN lines[id]
                    ELSE [path |-> LinePathOf(id.n, FALSE)]]
    /\ lastCall' = Call("renderLines", FALSE, <<>>)
    /\ UNCHANGED <<dotVars, timers>>

\* animateLine that starts the tween in the call, without a timer.
animateLineAtOnce(line, linePath, time, startTime) ==
    /\ line \in DOMAIN lines
    /\ Len(timers) < MaxTimers
    /\ lines' = [lines EXCEPT ![line] = attr(@, [path |-> linePath])]
    /\ lastCall' = Call("animateLine", FALSE,
                        <<[fn |-> "animate", args |-> <<line, linePath, time>>]>>)
    /\ UNCHANGED <<pass, dotVars, timers>>

\* animateLine(line, linePath, time, startTime): setTimeout queues the
\* callback with the line and the path it closes over.
animateLine(line, linePath, time, startTime) ==
    /\ line \in DOMAIN lines
    /\ Len(timers) < MaxTimers
    /\ timers' = Append(timers, [line |-> line, linePath |-> linePath,
                                 time |-> time, startTime |-> startTime])
    /\ lastCall' = Call("animateLine", FALSE, <<>>)
    /\ UNCHANGED <<pass, dotVars, lines>>

RemoveAt(s, k) == [j \in 1..(Len(s) - 1) |-> IF j < k THEN s[j] ELSE s[j + 1]]

\* A pending timer fires: its callback calls line.animate({path: linePath},
\* time) on the line it captured, and the one-shot timer is gone.
timerFires(k) ==
    /\ k \in DOMAIN timers
    /\ LET t == timers[k]
       IN  /\ lines' = [lines EXCEPT ![t.line] = attr(@, [path |-> t.linePath])]
           /\ lastCall' = Call("timer", FALSE,
                               <<[fn |-> "animate", args |-> <<t.line, t.linePath, t.time>>]>>)
    /\ timers' = RemoveAt(timers, k)
    /\ UNCHANGED <<pass, dotVars>>

----------------------------------------------------------------------------
\* The steps, with their inputs.

RenderStep ==
    \E positions \in GroupPositionsSet, groupColors \in Palettes,
       borderColor \in BorderColors, opacity \in DotOpacities, height \in Heights :
        Render(positions, groupColors, borderColor, opacity, height)

ShowStep == \E data \in Payloads : showAnimation(data)
HideStep == \E data \in Payloads : hideAnimation(data)
ShowGroupStep ==
    \E index \in PointIndexes, bound \in Bounds : showGroupAnimation(index, bound)
HideGroupStep == \E index \in PointIndexes : hideGroupAnimation(index)
HoverEnterStep == \E n \in 1..(MaxGroups * MaxPoints) : hoverEnter(n)
HoverExitStep == \E n \in 1..(MaxGroups * MaxPoints) : hoverExit(n)

\* Render passes of charts without a border, in either palette.
RenderPlainStep ==
    \E positions \in GroupPositionsSet, groupColors \in AllPalettes,
       opacity \in DotOpacities, height \in Heights :
        Render(positions, groupColors, "", opacity, height)

\* Render passes of charts without a border, in one palette.
RenderGroupStep ==
    \E positions \in GroupPositionsSet, groupColors \in Palettes,
       opacity \in DotOpacities, height \in Heights :
        Render(positions, groupColors, "", opacity, height)

MakeBorderStyleStep ==
    \E borderColor \in BorderColors, opacity \in Opacities :
        makeBorderStyleCall(borderColor, opacity)
MakeOutDotStyleStep ==
    \E opacity \in Opacities, style \in StyleInputs \cup {borderStyle} :
        makeOutDotStyleCall(opacity, style)

RenderLinesStep == \E count \in LineCounts : renderLines(count)
AnimateLineStep ==
    \E line \in DOMAIN lines, time \in Durations, startTime \in Delays :
        animateLine(line, LinePathOf(line.n, TRUE), time, startTime)
TimerStep == \E k \in 1..MaxTimers : timerFires(k)

\* The chart in use: render passes and the show and hide operations.
Next ==
    \/ RenderStep
    \/ ShowStep
    \/ HideStep
    \/ ShowGroupStep
    \/ HideGroupStep

Spec == Init /\ [][Next]_vars

\* Render passes and the group operations.
NextGroup ==
    \/ RenderGroupStep
    \/ ShowGroupStep
    \/ HideGroupStep

SpecGroup == Init /\ [][NextGroup]_vars

\* Render passes and the hover events.
NextHover ==
    \/ RenderPlainStep
    \/ HoverEnterStep
    \/ HoverExitStep

SpecHover == Init /\ [][NextHover]_vars

\* The style functions.
NextStyle ==
    \/ MakeBorderStyleStep
    \/ MakeOutDotStyleStep

SpecStyle == Init /\ [][NextStyle]_vars

\* The line animation: render passes, animateLine and the timers.
NextLine ==
    \/ RenderLinesStep
    \/ AnimateLineStep
    \/ TimerStep

SpecLine == Init /\ [][NextLine]_vars

----------------------------------------------------------------------------
\* What the claims speak of.

HoverKeys == {"fill-opacity", "stroke-opacity", "stroke-width", "r"}
StyleKeys == HoverKeys \cup {"stroke"}

\* An attribute of a bag, <<>> when the bag does not have it.
AttrOf(bag, k) == IF k \in DOMAIN bag THEN <<bag[k]>> ELSE <<>>

HasHoverStyle(bag) ==
    /\ AttrOf(bag, "fill-opacity") = <<"1">>
    /\ AttrOf(bag, "stroke-opacity") = <<"0.3">>
    /\ AttrOf(bag, "stroke-width") = <<2>>
    /\ AttrOf(bag, "r") = <<4>>

\* after is before with the hover style put on it and nothing else touched.
HoverStyled(before, after) ==
    /\ HasHoverStyle(after)
    /\ DOMAIN after = DOMAIN before \cup HoverKeys
    /\ \A k \in DOMAIN before \ HoverKeys : after[k] = before[k]

\* The places [g][i] (0-based) that hold a marker.
Places ==
    {pl \in GroupIndexes \X PointIndexes :
        HasIndex(groupDots, pl[1]) /\ HasIndex(At(groupDots, pl[1]), pl[2])}

DotOf(g, i) == At(At(groupDots, g), i)

\* The ordinals of the markers whose point index is i.
ColumnOf(i) == {DotOf(pl[1], pl[2]).n : pl \in {q \in Places : q[2] = i}}

\* C1: showAnimation({groupIndex: p, index: g}) with a marker at group g,
\* point p puts the hover style on that marker and changes no other marker
\* and not the tooltip line.
C1_ShowAnimationTouchesOneMarker ==
    [][\A data \in Payloads :
        (/\ lastCall'.op = "showAnimation"
         /\ <<data.index, data.groupIndex>> \in Places
         /\ showAnimation(data)) =>
            LET n == DotOf(data.index, data.groupIndex).n
            IN  /\ ~lastCall'.threw
                /\ DOMAIN paper' = DOMAIN paper
                /\ HoverStyled(paper[n], paper'[n])
                /\ \A m \in DOMAIN paper \ {n} : paper'[m] = paper[m]
                /\ tooltipLine' = tooltipLine]_vars

\* A marker of group 1, point 0 is shown while the marker of group 0, point 1
\* is not: the two indices of the payload were told apart.
C1_Witness ==
    /\ lastCall.op = "showAnimation"
    /\ ~lastCall.threw
    /\ <<1, 0>> \in Places /\ <<0, 1>> \in Places
    /\ HasHoverStyle(paper[DotOf(1, 0).n])
    /\ \A pl \in Places \ {<<1, 0>>} : ~HasHoverStyle(paper[DotOf(pl[1], pl[2]).n])

\* C2: a hover-enter on the marker at [g][i] calls inCallback once, with the
\* position at [g][i], then i, then g; a hover-exit calls outCallback once,
\* with no arguments; neither changes a marker or the tooltip line.
C2_HoverCallbacks ==
    [][\A pl \in Places :
        LET g == pl[1]
            i == pl[2]
            n == DotOf(g, i).n
        IN  /\ (lastCall'.op = "hoverEnter" /\ hoverEnter(n)) =>
                /\ lastCall'.callbacks =
                      <<[fn |-> "inCallback",
                         args |-> <<At(At(groupPositions, g), i), i, g>>]>>
                /\ paper' = paper /\ tooltipLine' = tooltipLine
            /\ (lastCall'.op = "hoverExit" /\ hoverExit(n)) =>
                /\ lastCall'.callbacks = <<[fn |-> "outCallback", args |-> <<>>]>>
                /\ paper' = paper /\ tooltipLine' = tooltipLine]_vars

\* The marker of group 1, point 0 was entered: the callback got the point
\* index 0 before the group index 1.
C2_Witness ==
    /\ lastCall.op = "hoverEnter"
    /\ Len(lastCall.callbacks) = 1
    /\ lastCall.callbacks[1].args[2] = 0
    /\ lastCall.callbacks[1].args[3] = 1

\* C3: a marker that is shown and then hidden has the fill-opacity,
\* stroke-opacity, stroke-width, r and stroke it had before the show.
C3_ShowHideRoundTrip ==
    \A pl \in Places :
        LET dot == DotOf(pl[1], pl[2])
            shown == showDot(paper, pass, dot)
            hidden == hideDot(shown, pass, dot, outDotStyle)
        IN  \A k \in StyleKeys : AttrOf(hidden[dot.n], k) = AttrOf(paper[dot.n], k)

C6_HideOfAbsentMarkerIsNoOp ==
    [][\A data \in Payloads :
        (/\ lastCall'.op = "hideAnimation"
         /\ <<data.index, data.groupIndex>> \notin Places
         /\ hideAnimation(data)) =>
            /\ ~lastCall'.threw
            /\ paper' = paper
            /\ tooltipLine' = tooltipLine]_vars

\* C7: renderDots gives a marker structure of the shape of groupPositions;
\* the marker at [g][i] is a circle at groupPositions[g][i], filled with
\* colors[g], fill-opacity 0 and stroke-opacity 0; the circles are created
\* group by group, and point by point in a group.
C7_RenderDotsCongruent ==
    lastCall.op = "render" =>
        /\ Len(groupDots) = Len(groupPositions)
        /\ \A g \in DOMAIN groupPositions :
              /\ Len(groupDots[g]) = Len(groupPositions[g])
              /\ \A i \in DOMAIN groupPositions[g] :
                    LET dot == paper[groupDots[g][i].n]
                    IN  /\ dot.cx = groupPositions[g][i].left
                        /\ dot.cy = groupPositions[g][i].top
                        /\ dot.fill = colors[g]
                        /\ dot["fill-opacity"] = "0"
                        /\ dot["stroke-opacity"] = "0"
        /\ \A g, h \in DOMAIN groupPositions :
              \A i \in DOMAIN groupPositions[g], j \in DOMAIN groupPositions[h] :
                  (g < h \/ (g = h /\ i < j)) => groupDots[g][i].n < groupDots[h][j].n
        /\ Len(paper) = Cardinality({pl \in (DOMAIN groupPositions) \X (1..MaxPoints) :
                                        pl[2] <= Len(groupPositions[pl[1]])})

\* Groups of two, no and one position were rendered.
C7_Witness ==
    /\ lastCall.op = "render"
    /\ Len(groupDots) = 2
    /\ Len(groupDots[1]) = 2
    /\ Len(groupDots[2]) = 0
    /\ Len(paper) = 2

\* C8: makeOutDotStyle(o, style) is the base {fill-opacity: o, stroke-opacity:
\* 0, r: 3} when style is undefined; otherwise it has every field of style
\* with style's value, and the base's value for every other base field.
C8_OutDotStyleComposition ==
    lastCall.op = "makeOutDotStyle" =>
        LET baseKeys == {"fill-opacity", "stroke-opacity", "r"}
            baseValue(k) == IF k = "fill-opacity" THEN <<dotOpacity>>
                            ELSE IF k = "stroke-opacity" THEN <<"0">> ELSE <<3>>
        IN  IF borderStyle = Undefined
            THEN /\ DOMAIN outDotStyle = baseKeys
                 /\ \A k \in baseKeys : AttrOf(outDotStyle, k) = baseValue(k)
            ELSE LET style == Value(borderStyle)
                 IN  /\ DOMAIN outDotStyle = baseKeys \cup DOMAIN style
                     /\ \A k \in DOMAIN style : outDotStyle[k] = style[k]
                     /\ \A k \in baseKeys \ DOMAIN style :
                           AttrOf(outDotStyle, k) = baseValue(k)

\* The out style was made with a border style of makeBorderStyle whose
\* stroke-opacity replaced the base's 0.
C8_Witness ==
    /\ lastCall.op = "makeOutDotStyle"
    /\ borderStyle = makeBorderStyle("#ccc", "0.5")
    /\ outDotStyle["stroke-opacity"] = "0.5"
    /\ outDotStyle["fill-opacity"] = "1"

C10_AnimateLineTimer ==
    [][/\ (\E line \in DOMAIN lines, time \in Durations, startTime \in Delays :
                animateLine(line, LinePathOf(line.n, TRUE), time, startTime)) =>
            /\ lines' = lines
            /\ Len(timers') = Len(timers) + 1
       /\ lastCall'.op = "renderLines" =>
            /\ timers' = timers
            /\ \A id \in DOMAIN lines : id \in DOMAIN lines' /\ lines'[id] = lines[id]
       /\ timers' # timers /\ Len(timers') <= Len(timers) =>
            \E k \in DOMAIN timers :
                LET t == timers[k]
                IN  /\ timers' = RemoveAt(timers, k)
                    /\ lastCall'.callbacks =
                          <<[fn |-> "animate", args |-> <<t.line, t.linePath, t.time>>]>>
                    /\ DOMAIN lines' = DOMAIN lines
                    /\ lines'[t.line].path = t.linePath
                    /\ \A id \in DOMAIN lines \ {t.line} : lines'[id] = lines[id]
       /\ lastCall'.op = "timer" => Len(timers') = Len(timers) - 1]_vars

\* A timer fired on a line of the first pass after the second pass was
\* rendered; the lines of the second pass are at their start paths.
C10_Witness ==
    /\ lastCall.op = "timer"
    /\ pass = 2
    /\ lastCall.callbacks[1].args[1].pass = 1
    /\ lines[lastCall.callbacks[1].args[1]].path = lastCall.callbacks[1].args[2]
    /\ \A id \in DOMAIN lines : id.pass = 2 => lines[id].path = LinePathOf(id.n, FALSE)

====
